---- MODULE Spec2Model ----
(***************************************************************************)
(* Waterwheel server core: the trigger scheduler (server/triggers.rs),     *)
(* the progress ingester (server/progress.rs), the job upsert endpoint     *)
(* (server/api/job.rs) and, from the specification, the token processor.   *)
(* Datetimes are integers (one unit = one scheduling step), an             *)
(* Option<T> is the empty tuple (None) or a one-element tuple (Some).      *)
(***************************************************************************)
EXTENDS Integers, Sequences, FiniteSets, Bags, TLC

\* ------------------------------------------------------------------ bounds
MaxTime == 2          \* the wall clock runs over 0..MaxTime
MaxUpdates == 1       \* TriggerUpdate messages the HTTP layer posts
MaxUpserts == 1       \* job upsert requests
MaxResults == 1       \* task runs the workers report
MaxRedeliver == 1     \* deliveries of a TaskResult whose acknowledgement fails
MaxPoison == 1        \* undecodable messages on waterwheel.results
MaxCrashes == 1       \* crashes of the server process
MaxTxnFails == 1      \* transactions that fail

\* ------------------------------------------------------------- Option<T>
None == <<>>
Some(x) == <<x>>
IsSome(o) == o /= <<>>
Unwrap(o) == o[1]
UnwrapOr(o, d) == IF o = <<>> THEN d ELSE o[1]

Min2(a, b) == IF a <= b THEN a ELSE b
Max2(a, b) == IF a >= b THEN a ELSE b

\* SQL LEAST / GREATEST: a NULL argument is ignored
\* mutants: LEAST propagating NULL, GREATEST overwriting
LEAST_null(o, d) == IF o = None THEN None ELSE Some(Min2(o[1], d))
GREATEST_overwrite(o, d) == Some(d)

LEAST(o, d) == IF o = None THEN Some(d) ELSE Some(Min2(o[1], d))
GREATEST(o, d) == IF o = None THEN Some(d) ELSE Some(Max2(o[1], d))

\* ------------------------------------------------------- database content
\* trigger rows of the database; T3 is an id without a row (a deleted trigger, or
\* the trigger the job endpoint creates)
Rows == {"T1", "T2"}
Ids == Rows \cup {"T3"}
Tasks == {"A", "B", "C", "D"}

\* trigger_edge rows, in cursor order
trigger_edge == [id \in Ids |->
    CASE id = "T1" -> << [task_id |-> "A", edge_offset |-> None],
                         [task_id |-> "B", edge_offset |-> Some(1)] >>
      [] id = "T2" -> << [task_id |-> "C", edge_offset |-> None] >>
      [] OTHER -> << >>]

\* task_edge rows
task_edge == { [parent_task_id |-> "A", child_task_id |-> "C", kind |-> "success"],
               [parent_task_id |-> "B", child_task_id |-> "C", kind |-> "success"],
               [parent_task_id |-> "A", child_task_id |-> "D", kind |-> "failure"] }

VARIABLES
    now,          \* Utc::now()
    trigger,      \* table trigger: id -> row
    job,          \* table job, by trigger id: the paused flag of the owning job
    token,        \* table token: (task_id, trigger_datetime) -> row, created lazily
    queue,        \* the scheduler's heap of TriggerTime, a bag
    sched,        \* position of process_triggers: "start", "loop", "sleep"
    sleeping,     \* the popped TriggerTime the scheduler sleeps on (Option)
    trigger_rx,   \* mailbox of TriggerUpdate(uuid)
    token_chan,   \* mailbox of ProcessToken messages
    last,         \* the last operation and what it did (history)
    pruned,       \* ids whose last reload found no unpaused row (history)
    acted,        \* per trigger id, the trigger_datetimes activated, in order (history)
    nupd,         \* TriggerUpdate messages posted so far
    nups,         \* job upserts so far
    results,      \* bus queue waterwheel.results, unacknowledged messages in order
    progress,     \* process_progress: "run", or "err" after it returned an error
    dispatched,   \* bag of the tokens the token processor dispatched (history)
    nres,         \* task runs reported so far
    nredel,       \* failed acknowledgements so far
    npoison,      \* undecodable messages posted so far
    cb,           \* the circuit breaker of the supervised scheduler: times of its failures
    work,         \* the transaction and send the scheduler is in the middle of (Option)
    ncrash,       \* process crashes so far
    nfail,        \* failed transactions so far
    ingest,       \* the delivery process_progress is in the middle of (Option)
    twin          \* a second server process: its scheduler and its token processor

vars == << now, trigger, job, token, queue, sched, sleeping, trigger_rx,
           token_chan, last, pruned, acted, nupd, nups,
           results, progress, dispatched, nres, nredel, npoison,
           cb, work, ncrash, nfail, ingest, twin >>

supvars == << cb, work, ncrash, nfail, ingest, twin >>

flowvars == << results, progress, dispatched, nres, nredel, npoison >>

\* ------------------------------------------------------------ Trigger impl
\* mutant: the trigger_offset is ignored
offset_duration_zero(trig) == 0

offset_duration(trig) == IF IsSome(trig.trigger_offset) THEN Unwrap(trig.trigger_offset) ELSE 0

at(trig, datetime) ==
    [ scheduled_datetime |-> datetime + offset_duration(trig),
      trigger_datetime |-> datetime,
      trigger_id |-> trig.id ]

\* Schedule::from_str: a cron expression that parses is << "every", n >>, the
\* schedule of the multiples of n; any other expression is rejected
ParseSchedule(cron) == Len(cron) = 2 /\ cron[1] = "every"

\* Trigger::period: the Period of the row, or the parse error
period(trig) ==
    IF IsSome(trig.cron)
    THEN IF ParseSchedule(Unwrap(trig.cron))
         THEN [ok |-> TRUE, kind |-> "Cron", schedule |-> Unwrap(trig.cron)[2]]
         ELSE [ok |-> FALSE]
    ELSE [ok |-> TRUE, kind |-> "Duration", duration |-> trig.period]

\* DateTime + &Period: the duration added, or the schedule's next time after
AddPeriod(datetime, trig) ==
    IF period(trig).kind = "Cron"
    THEN ((datetime \div period(trig).schedule) + 1) * period(trig).schedule
    ELSE datetime + period(trig).duration

\* ---------------------------------------------------------------- tokens
InDegree(task) == Cardinality({e \in task_edge : e.child_task_id = task})

TokenKey(t) == << t.task_id, t.trigger_datetime >>

increment_token(tok, t) ==
    IF TokenKey(t) \in DOMAIN tok
    THEN [tok EXCEPT ![TokenKey(t)].count = @ + 1]
    ELSE tok @@ (TokenKey(t) :> [count |-> 1, threshold |-> InDegree(t.task_id), state |-> "waiting"])

RECURSIVE IncrementAll(_, _)
IncrementAll(tok, toks) ==
    IF toks = << >> THEN tok
    ELSE IncrementAll(increment_token(tok, Head(toks)), Tail(toks))

\* ------------------------------------------------------ do_activate_trigger
\* mutant: the edge_offset is not added
EdgeTokens_no_offset(tt) ==
    [ i \in 1..Len(trigger_edge[tt.trigger_id]) |->
        [ task_id |-> trigger_edge[tt.trigger_id][i].task_id,
          trigger_datetime |-> tt.trigger_datetime ] ]

EdgeTokens(tt) ==
    [ i \in 1..Len(trigger_edge[tt.trigger_id]) |->
        [ task_id |-> trigger_edge[tt.trigger_id][i].task_id,
          trigger_datetime |-> tt.trigger_datetime
                + UnwrapOr(trigger_edge[tt.trigger_id][i].edge_offset, 0) ] ]

\* mutant: the watermarks are not written
UpdateTriggerTimes_none(trg, tt) == trg

UpdateTriggerTimes(trg, tt) ==
    IF tt.trigger_id \in DOMAIN trg
    THEN [trg EXCEPT ![tt.trigger_id].latest_trigger_datetime = GREATEST(@, tt.trigger_datetime),
                     ![tt.trigger_id].earliest_trigger_datetime = LEAST(@, tt.trigger_datetime)]
    ELSE trg

\* db is [token, trigger]; the result adds the tokens to transmit
do_activate_trigger(db, tt) ==
    [ token |-> IncrementAll(db.token, EdgeTokens(tt)),
      trigger |-> UpdateTriggerTimes(db.trigger, tt),
      tokens_to_tx |-> EdgeTokens(tt) ]

\* a sequence of activations inside one transaction
RECURSIVE ActivateAll(_, _)
ActivateAll(db, tts) ==
    IF tts = << >> THEN [token |-> db.token, trigger |-> db.trigger, tokens_to_tx |-> << >>]
    ELSE LET one == do_activate_trigger(db, Head(tts))
             rest == ActivateAll([token |-> one.token, trigger |-> one.trigger], Tail(tts))
         IN [rest EXCEPT !.tokens_to_tx = one.tokens_to_tx \o @]

\* ---------------------------------------------------------- catchup_trigger
\* the datetimes next, next + period, ... that are < bound
RECURSIVE Walk(_, _, _)
Walk(next, bound, trig) ==
    IF next < bound THEN << next >> \o Walk(AddPeriod(next, trig), bound, trig) ELSE << >>

RECURSIVE WalkEnd(_, _, _)
WalkEnd(next, bound, trig) ==
    IF next < bound THEN WalkEnd(AddPeriod(next, trig), bound, trig) ELSE next

\* mutant: the walk over a start moved backwards runs for every policy
BackSteps_any_policy(trig) ==
    IF IsSome(trig.earliest_trigger_datetime)
       /\ trig.start_datetime < Unwrap(trig.earliest_trigger_datetime)
    THEN Walk(trig.start_datetime, Unwrap(trig.earliest_trigger_datetime), trig)
    ELSE << >>

\* the walk over a start date that has moved backwards
BackSteps(trig) ==
    IF trig.catchup /= "None"
       /\ IsSome(trig.earliest_trigger_datetime)
       /\ trig.start_datetime < Unwrap(trig.earliest_trigger_datetime)
    THEN Walk(trig.start_datetime, Unwrap(trig.earliest_trigger_datetime), trig)
    ELSE << >>

\* mutant: the walk restarts at latest itself
CatchupFirst_latest(trig) ==
    IF IsSome(trig.latest_trigger_datetime)
    THEN Unwrap(trig.latest_trigger_datetime)
    ELSE trig.start_datetime

CatchupFirst(trig) ==
    IF IsSome(trig.latest_trigger_datetime)
    THEN AddPeriod(Unwrap(trig.latest_trigger_datetime), trig)
    ELSE trig.start_datetime

CatchupLast(trig, t) ==
    IF IsSome(trig.end_datetime) THEN Min2(t, Unwrap(trig.end_datetime)) ELSE t

SinceSteps(trig, t) ==
    IF trig.catchup /= "None" THEN Walk(CatchupFirst(trig), CatchupLast(trig, t), trig) ELSE << >>

CatchupNext(trig, t) == WalkEnd(CatchupFirst(trig), CatchupLast(trig, t), trig)

CatchupActs(trig, t) ==
    [ i \in 1..(Len(BackSteps(trig)) + Len(SinceSteps(trig, t))) |->
        IF i <= Len(BackSteps(trig)) THEN at(trig, BackSteps(trig)[i])
        ELSE at(trig, SinceSteps(trig, t)[i - Len(BackSteps(trig))]) ]

\* mutant: the next fire time is queued whatever the end_datetime
CatchupQueue_always(q, trig, t) == q (+) SetToBag({at(trig, CatchupNext(trig, t))})

CatchupQueue(q, trig, t) ==
    IF trig.end_datetime = None \/ CatchupNext(trig, t) < Unwrap(trig.end_datetime)
    THEN q (+) SetToBag({at(trig, CatchupNext(trig, t))})
    ELSE q

\* slice::sort_by_key, a stable sort; rev is std::cmp::Reverse on the key
SortKey(t, rev) == IF rev THEN 0 - t.trigger_datetime ELSE t.trigger_datetime

RECURSIVE InsertByKey(_, _, _)
InsertByKey(s, x, rev) ==
    IF s = << >> THEN << x >>
    ELSE IF SortKey(x, rev) < SortKey(Head(s), rev) THEN << x >> \o s
    ELSE << Head(s) >> \o InsertByKey(Tail(s), x, rev)

RECURSIVE sort_by_key(_, _)
sort_by_key(s, rev) ==
    IF s = << >> THEN << >>
    ELSE InsertByKey(sort_by_key(SubSeq(s, 1, Len(s) - 1), rev), s[Len(s)], rev)

Shuffles(s) == { [i \in 1..Len(s) |-> s[p[i]]] : p \in Permutations(1..Len(s)) }

\* mutant: the tokens are sent in the order of the writes
CatchupOrders_unsorted(trig, toks) == { toks }

\* the orders in which catchup may hand its tokens to send_to_token_processor
CatchupOrders(trig, toks) ==
    CASE trig.catchup = "None" -> { toks }
      [] trig.catchup = "Earliest" -> { sort_by_key(toks, FALSE) }
      [] trig.catchup = "Latest" -> { sort_by_key(toks, TRUE) }
      [] OTHER -> Shuffles(toks)

\* -------------------------------------------------- send_to_token_processor
send_to_token_processor(chan, toks, priority) ==
    chan \o [ i \in 1..Len(toks) |-> [kind |-> "Increment", token |-> toks[i], priority |-> priority] ]

\* the scheduler's view of the world that one operation transforms
SchedState(op) == [ token |-> token, trigger |-> trigger, queue |-> queue,
                    token_chan |-> token_chan, acted |-> acted,
                    last |-> [op |-> op, runs |-> << >>],
                    pruned |-> pruned, err |-> FALSE ]

\* mutant: catchup posts at the live priority
CatchupPriority_normal == "Normal"
CatchupPriority == "BackFill"
LivePriority == "Normal"

\* catchup_trigger: the set of outcomes (one per order of the shuffle); when
\* trigger.period() fails the error is returned before anything is written
catchup_trigger(st, trig, t) ==
    IF ~period(trig).ok THEN { [st EXCEPT !.err = TRUE] } ELSE
    LET acts == CatchupActs(trig, t)
        res == ActivateAll([token |-> st.token, trigger |-> st.trigger], acts)
    IN { [ token |-> res.token,
           trigger |-> res.trigger,
           queue |-> CatchupQueue(st.queue, trig, t),
           token_chan |-> send_to_token_processor(st.token_chan, order, CatchupPriority),
           acted |-> [st.acted EXCEPT ![trig.id] = @ \o [i \in 1..Len(acts) |-> acts[i].trigger_datetime]],
           last |-> [st.last EXCEPT !.runs = Append(@,
                      [ kind |-> "catchup", trig |-> trig, now |-> t, acts |-> acts,
                        tokens |-> res.tokens_to_tx,
                        sent |-> send_to_token_processor(<< >>, order, CatchupPriority) ])],
           pruned |-> st.pruned \ {trig.id},
           err |-> FALSE ]
         : order \in CatchupOrders(trig, res.tokens_to_tx) }

\* ------------------------------------------------------------ update_trigger
\* mutant: the heap is rebuilt without the filter
Prune_keep(q, uuid) == q

\* mutant: the filter is inverted
Prune_inverted(q, uuid) == [ e \in { x \in DOMAIN q : x.trigger_id = uuid } |-> q[e] ]

\* mutant: the heap is drained and not rebuilt
Prune_all(q, uuid) == EmptyBag

\* drain, filter and re-heapify
Prune(q, uuid) == [ e \in { x \in DOMAIN q : x.trigger_id /= uuid } |-> q[e] ]

\* SELECT ... FROM trigger t JOIN job j ... WHERE t.id = $1 AND NOT j.paused
LoadUnpaused(st, uuid) ==
    IF uuid \in DOMAIN st.trigger /\ ~job[uuid] THEN Some(st.trigger[uuid]) ELSE None

update_trigger(st, uuid) ==
    LET pq == [st EXCEPT !.queue = Prune(st.queue, uuid)]
        maybe_trigger == LoadUnpaused(st, uuid)
    IN IF IsSome(maybe_trigger)
       THEN catchup_trigger(pq, Unwrap(maybe_trigger), now)
       ELSE { [pq EXCEPT !.pruned = @ \cup {uuid}] }

\* ---------------------------------------------------------- restore_triggers
RECURSIVE restore_triggers(_, _)
restore_triggers(st, cursor) ==
    IF cursor = << >> THEN { st }
    ELSE UNION { IF st1.err THEN { st1 } ELSE restore_triggers(st1, Tail(cursor))
                 : st1 \in catchup_trigger(st, st.trigger[Head(cursor)], now) }

\* the orders in which the cursor may return the unpaused rows
Cursors == { c \in UNION { [1..n -> DOMAIN trigger] : n \in 0..Cardinality(DOMAIN trigger) } :
               /\ \A i, j \in DOMAIN c : i /= j => c[i] /= c[j]
               /\ { c[i] : i \in DOMAIN c } = { id \in DOMAIN trigger : ~job[id] } }

\* --------------------------------------------------- requeue_next_triggertime
\* mutant: the successor is queued when it does not pass the end_datetime
requeue_next_triggertime_le(st, tt) ==
    LET trig == st.trigger[tt.trigger_id]
        next_datetime == AddPeriod(tt.trigger_datetime, trig)
    IN IF ~period(trig).ok THEN [st EXCEPT !.err = TRUE]
       ELSE IF trig.end_datetime = None \/ next_datetime <= Unwrap(trig.end_datetime)
       THEN [st EXCEPT !.queue = @ (+) SetToBag({at(trig, next_datetime)})]
       ELSE st

requeue_next_triggertime(st, tt) ==
    LET trig == st.trigger[tt.trigger_id]
        next_datetime == AddPeriod(tt.trigger_datetime, trig)
    IN IF ~period(trig).ok THEN [st EXCEPT !.err = TRUE]
       ELSE IF trig.end_datetime = None \/ next_datetime < Unwrap(trig.end_datetime)
       THEN [st EXCEPT !.queue = @ (+) SetToBag({at(trig, next_datetime)})]
       ELSE st

\* ----------------------------------------------------------- activate_trigger
activate_trigger(st, tt, priority) ==
    LET res == do_activate_trigger([token |-> st.token, trigger |-> st.trigger], tt)
    IN [st EXCEPT !.token = res.token,
                  !.trigger = res.trigger,
                  !.token_chan = send_to_token_processor(@, res.tokens_to_tx, priority),
                  !.acted = [@ EXCEPT ![tt.trigger_id] = Append(@, tt.trigger_datetime)],
                  !.last = [@ EXCEPT !.runs = Append(@,
                             [ kind |-> "live", trig |-> st.trigger[tt.trigger_id], now |-> now,
                               acts |-> << tt >>, tokens |-> res.tokens_to_tx,
                               sent |-> send_to_token_processor(<< >>, res.tokens_to_tx, priority) ])]]

\* requeue the successor, then activate at priority Normal
FireLive(st, tt) ==
    IF requeue_next_triggertime(st, tt).err THEN requeue_next_triggertime(st, tt)
    ELSE activate_trigger(requeue_next_triggertime(st, tt), tt, LivePriority)

\* where process_triggers stands after an operation: an Err of the operation
\* is returned by process_triggers itself
After(st, pos) == IF st.err THEN "failed" ELSE pos

\* ----------------------------------------------------------- process_triggers
Commit(st) ==
    /\ token' = st.token
    /\ trigger' = st.trigger
    /\ queue' = st.queue
    /\ token_chan' = st.token_chan
    /\ acted' = st.acted
    /\ last' = st.last
    /\ pruned' = st.pruned

\* BinaryHeap::pop on a min-heap ordered by scheduled_datetime
IsMin(q, tt) == tt \in DOMAIN q /\ \A o \in DOMAIN q : tt.scheduled_datetime <= o.scheduled_datetime

\* mutant: the popped entry stays in the heap
Remove_keep(q, tt) == q
Remove(q, tt) == q (-) SetToBag({tt})

\* process_triggers up to the main loop: a fresh heap, then restore_triggers
Restore ==
    /\ sched = "start"
    /\ \E c \in Cursors :
         \E st \in restore_triggers([SchedState("restore") EXCEPT
                                         !.queue = EmptyBag,
                                         !.pruned = Ids \ { c[i] : i \in DOMAIN c }], c) :
            Commit(st) /\ sched' = After(st, "loop")
    /\ UNCHANGED << now, job, sleeping, trigger_rx, nupd, nups, flowvars, supvars >>

\* the try_recv loop, and the blocking recv on an empty heap
DrainUpdate ==
    /\ sched = "loop"
    /\ trigger_rx /= << >>
    /\ \E st \in update_trigger(SchedState("update"), Head(trigger_rx)) :
         Commit(st) /\ sched' = After(st, "loop")
    /\ trigger_rx' = Tail(trigger_rx)
    /\ UNCHANGED << now, job, sleeping, nupd, nups, flowvars, supvars >>

\* pop the next TriggerTime: sleep on it, or fire it when overslept
PopNext ==
    /\ sched = "loop"
    /\ trigger_rx = << >>
    /\ \E tt \in DOMAIN queue :
         /\ IsMin(queue, tt)
         /\ LET popped == [SchedState("pop") EXCEPT !.queue = Remove(queue, tt)]
            IN IF tt.scheduled_datetime - now > 0
               THEN /\ Commit(popped)
                    /\ sched' = "sleep"
                    /\ sleeping' = Some(tt)
               ELSE /\ Commit(FireLive(popped, tt))
                    /\ sched' = After(FireLive(popped, tt), "loop")
                    /\ UNCHANGED sleeping
    /\ UNCHANGED << now, job, trigger_rx, nupd, nups, flowvars, supvars >>

\* select!: the sleep completed
SleepWake ==
    /\ sched = "sleep"
    /\ now >= Unwrap(sleeping).scheduled_datetime
    /\ Commit(FireLive(SchedState("wake"), Unwrap(sleeping)))
    /\ sched' = After(FireLive(SchedState("wake"), Unwrap(sleeping)), "loop")
    /\ sleeping' = None
    /\ UNCHANGED << now, job, trigger_rx, nupd, nups, flowvars, supvars >>

\* select!: a TriggerUpdate arrived while sleeping
SleepUpdate ==
    /\ sched = "sleep"
    /\ trigger_rx /= << >>
    /\ \E st \in update_trigger([SchedState("sleep_update") EXCEPT !.queue = @ (+) SetToBag({Unwrap(sleeping)})],
                                 Head(trigger_rx)) : Commit(st) /\ sched' = After(st, "loop")
    /\ trigger_rx' = Tail(trigger_rx)
    /\ sleeping' = None
    /\ UNCHANGED << now, job, nupd, nups, flowvars, supvars >>

\* ------------------------------------------------------------ token processor
\* ProcessToken::Increment on delivery: the threshold check and the dispatch
Eligible(tok, k) ==
    k \in DOMAIN tok /\ tok[k].state = "waiting" /\ tok[k].count >= tok[k].threshold

process_tokens ==
    /\ token_chan /= << >>
    /\ LET k == TokenKey(Head(token_chan).token)
       IN IF Eligible(token, k)
          THEN /\ token' = [token EXCEPT ![k].state = "active"]
               /\ dispatched' = dispatched (+) SetToBag({k})
          ELSE UNCHANGED << token, dispatched >>
    /\ token_chan' = Tail(token_chan)
    /\ last' = [ op |-> "check", runs |-> << >>, key |-> TokenKey(Head(token_chan).token),
                 activated |-> Eligible(token, TokenKey(Head(token_chan).token)) ]
    /\ UNCHANGED << now, trigger, job, queue, sched, sleeping, trigger_rx, pruned, acted,
                    nupd, nups, results, progress, nres, nredel, npoison, supvars >>

\* ------------------------------------------------------------------- workers
\* a worker picks up a dispatched task, runs it and reports the result
Results == {"success", "failure"}

WorkerRun ==
    /\ nres < MaxResults
    /\ \E k \in DOMAIN token, r \in Results :
         /\ token[k].state = "active"
         /\ token' = [token EXCEPT ![k].state = "running"]
         /\ results' = Append(results, [ valid |-> TRUE, task_id |-> k[1],
                                          trigger_datetime |-> k[2], result |-> r ])
    /\ nres' = nres + 1
    /\ UNCHANGED << now, trigger, job, queue, sched, sleeping, trigger_rx, token_chan,
                    last, pruned, acted, nupd, nups, progress, dispatched, nredel, npoison, supvars >>

\* a message that does not decode arrives on waterwheel.results
Poison == [ valid |-> FALSE, task_id |-> "?", trigger_datetime |-> 0, result |-> "?" ]

PostPoison ==
    /\ npoison < MaxPoison
    /\ results' = Append(results, Poison)
    /\ npoison' = npoison + 1
    /\ UNCHANGED << now, trigger, job, token, queue, sched, sleeping, trigger_rx, token_chan,
                    last, pruned, acted, nupd, nups, progress, dispatched, nres, nredel, supvars >>

\* ----------------------------------------------------------- process_progress
\* SELECT child_task_id FROM task_edge WHERE parent_task_id = $1 AND kind = $2
RECURSIVE SetToSeq(_)
SetToSeq(S) == IF S = {} THEN << >> ELSE LET x == CHOOSE y \in S : TRUE IN << x >> \o SetToSeq(S \ {x})

\* mutant: the children of every kind of edge are selected
ChildTokens_any_kind(msg) ==
    LET children == SetToSeq({ e.child_task_id : e \in { f \in task_edge :
                                   f.parent_task_id = msg.task_id } })
    IN [ i \in 1..Len(children) |->
           [ task_id |-> children[i], trigger_datetime |-> msg.trigger_datetime ] ]

ChildTokens(msg) ==
    LET children == SetToSeq({ e.child_task_id : e \in { f \in task_edge :
                                   f.parent_task_id = msg.task_id /\ f.kind = msg.result } })
    IN [ i \in 1..Len(children) |->
           [ task_id |-> children[i], trigger_datetime |-> msg.trigger_datetime ] ]

\* UPDATE token SET state = $1 WHERE task_id = $2 AND trigger_datetime = $3
SetParentState(tok, msg) ==
    IF << msg.task_id, msg.trigger_datetime >> \in DOMAIN tok
    THEN [tok EXCEPT ![<< msg.task_id, msg.trigger_datetime >>].state = msg.result]
    ELSE tok

\* the transaction of one delivery
ProgressTxn(tok, msg) == SetParentState(IncrementAll(tok, ChildTokens(msg)), msg)

ParentState(tok, msg) ==
    IF << msg.task_id, msg.trigger_datetime >> \in DOMAIN tok
    THEN Some(tok[<< msg.task_id, msg.trigger_datetime >>].state) ELSE None

\* mutant: the children are never published
send_children_none(chan, toks) == chan

\* the ingester posts ProcessToken(token), with no priority of its own
send_children(chan, toks) ==
    chan \o [ i \in 1..Len(toks) |-> [kind |-> "Increment", token |-> toks[i], priority |-> "Unset"] ]

\* the token rows whose count differs between two versions of the table
Incremented(old, new) ==
    { k \in DOMAIN new : k \notin DOMAIN old \/ new[k].count /= old[k].count }

IngestRecord(msg, acked) ==
    [ op |-> "ingest", runs |-> << >>, msg |-> msg,
      parent_before |-> ParentState(token, msg),
      incremented |-> Incremented(token, ProgressTxn(token, msg)),
      acked |-> acked,
      sent |-> IF acked THEN send_children(<< >>, ChildTokens(msg)) ELSE << >> ]

\* one iteration of the consumer loop: commit, acknowledge, publish
process_progress ==
    /\ progress = "run"
    /\ results /= << >>
    /\ Head(results).valid
    /\ token' = ProgressTxn(token, Head(results))
    /\ results' = Tail(results)
    /\ token_chan' = send_children(token_chan, ChildTokens(Head(results)))
    /\ last' = IngestRecord(Head(results), TRUE)
    /\ UNCHANGED << now, trigger, job, queue, sched, sleeping, trigger_rx, pruned, acted,
                    nupd, nups, progress, dispatched, nres, nredel, npoison, supvars >>

\* the same iteration when basic_ack fails after the commit: the error is returned
\* before anything is published and the broker redelivers the message
process_progress_ack_fails ==
    /\ progress = "run"
    /\ results /= << >>
    /\ Head(results).valid
    /\ nredel < MaxRedeliver
    /\ token' = ProgressTxn(token, Head(results))
    /\ progress' = "err"
    /\ last' = IngestRecord(Head(results), FALSE)
    /\ nredel' = nredel + 1
    /\ UNCHANGED << now, trigger, job, queue, sched, sleeping, trigger_rx, token_chan, pruned,
                    acted, nupd, nups, results, dispatched, nres, npoison, supvars >>

\* the same iteration on a message that does not decode: serde_json::from_slice(..)?
\* or get_token()? returns the error, the message stays unacknowledged
process_progress_decode_fails ==
    /\ progress = "run"
    /\ results /= << >>
    /\ ~Head(results).valid
    /\ progress' = "err"
    /\ last' = [ op |-> "poison", runs |-> << >>, msg |-> Head(results) ]
    /\ UNCHANGED << now, trigger, job, token, queue, sched, sleeping, trigger_rx, token_chan,
                    pruned, acted, nupd, nups, results, dispatched, nres, nredel, npoison, supvars >>

\* spawn_retry: the failed component is run again
spawn_retry ==
    /\ progress = "err"
    /\ progress' = "run"
    /\ UNCHANGED << now, trigger, job, token, queue, sched, sleeping, trigger_rx, token_chan,
                    last, pruned, acted, nupd, nups, results, dispatched, nres, nredel, npoison, supvars >>

\* ------------------------------------------ process_progress, step by step
\* One iteration of the consumer loop with the transaction, the commit, the
\* acknowledgement and the publication as separate steps: ingest holds the
\* delivery being processed, its stage ("txn" an open transaction, "ack"
\* committed and about to acknowledge, "send" acknowledged and about to
\* publish) and the child tokens collected.
Ingesting(stage) == IsSome(ingest) /\ Unwrap(ingest).stage = stage

\* the delivery is decoded, the children are selected and incremented and the
\* parent is updated inside the transaction
progress_txn ==
    /\ progress = "run"
    /\ ingest = None
    /\ results /= << >>
    /\ Head(results).valid
    /\ ingest' = Some([ stage |-> "txn", msg |-> Head(results),
                        tokens |-> ChildTokens(Head(results)) ])
    /\ UNCHANGED << now, trigger, job, token, queue, sched, sleeping, trigger_rx, token_chan,
                    last, pruned, acted, nupd, nups, flowvars, cb, work, ncrash, nfail, twin >>

\* mutant: the writes of a dropped transaction reach the database
progress_rollback_keep(tok, msg) == ProgressTxn(tok, msg)

\* the Transaction of a delivery dropped without commit rolls back
progress_rollback(tok, msg) == tok

\* a statement of the transaction or its commit fails: the error is returned
\* with ?, nothing is acknowledged
progress_txn_fails ==
    /\ Ingesting("txn")
    /\ nfail < MaxTxnFails
    /\ token' = progress_rollback(token, Unwrap(ingest).msg)
    /\ ingest' = None
    /\ progress' = "err"
    /\ nfail' = nfail + 1
    /\ UNCHANGED << now, trigger, job, queue, sched, sleeping, trigger_rx, token_chan, last,
                    pruned, acted, nupd, nups, results, dispatched, nres, nredel, npoison,
                    cb, work, ncrash, twin >>

\* txn.commit()
progress_commit ==
    /\ Ingesting("txn")
    /\ token' = ProgressTxn(token, Unwrap(ingest).msg)
    /\ ingest' = Some([Unwrap(ingest) EXCEPT !.stage = "ack"])
    /\ last' = IngestRecord(Unwrap(ingest).msg, FALSE)
    /\ UNCHANGED << now, trigger, job, queue, sched, sleeping, trigger_rx, token_chan,
                    pruned, acted, nupd, nups, flowvars, cb, work, ncrash, nfail, twin >>

\* chan.basic_ack: the broker drops the delivery
progress_ack ==
    /\ Ingesting("ack")
    /\ results' = Tail(results)
    /\ ingest' = Some([Unwrap(ingest) EXCEPT !.stage = "send"])
    /\ UNCHANGED << now, trigger, job, token, queue, sched, sleeping, trigger_rx, token_chan,
                    last, pruned, acted, nupd, nups, progress, dispatched, nres, nredel, npoison,
                    cb, work, ncrash, nfail, twin >>

\* chan.basic_ack fails: the error is returned, the delivery stays with the
\* broker
progress_ack_fails ==
    /\ Ingesting("ack")
    /\ nredel < MaxRedeliver
    /\ ingest' = None
    /\ progress' = "err"
    /\ nredel' = nredel + 1
    /\ UNCHANGED << now, trigger, job, token, queue, sched, sleeping, trigger_rx, token_chan,
                    last, pruned, acted, nupd, nups, results, dispatched, nres, npoison,
                    cb, work, ncrash, nfail, twin >>

\* the loop over tokens_to_tx: token_tx.send(ProcessToken(token))
progress_send ==
    /\ Ingesting("send")
    /\ token_chan' = send_children(token_chan, Unwrap(ingest).tokens)
    /\ ingest' = None
    /\ UNCHANGED << now, trigger, job, token, queue, sched, sleeping, trigger_rx,
                    last, pruned, acted, nupd, nups, flowvars, cb, work, ncrash, nfail, twin >>

\* ------------------------------------- the scheduler, transaction by transaction
\* The same operations with the transaction and the send as separate steps:
\* work holds what the scheduler is in the middle of. stage "next" is the
\* restore loop between two triggers, "txn" an open transaction with the
\* activations it has executed (row-wise increments and watermark updates, not
\* visible to others until the commit), "send" the committed tokens about to
\* be published.
Working(stage) == IsSome(work) /\ Unwrap(work).stage = stage

\* restore_triggers: a fresh heap and the cursor over the unpaused triggers
restore_begin ==
    /\ sched = "start"
    /\ \E c \in Cursors :
         IF c = << >>
         THEN sched' = "loop" /\ work' = None
         ELSE sched' = "restore" /\ work' = Some([stage |-> "next", rest |-> c])
    /\ queue' = EmptyBag
    /\ sleeping' = None
    /\ UNCHANGED << now, trigger, job, token, trigger_rx, token_chan, last, pruned, acted,
                    nupd, nups, flowvars, cb, ncrash, nfail, ingest, twin >>

\* catchup_trigger up to the commit: begin, the activations of the walk inside
\* the transaction, and the push of the next fire time
catchup_txn ==
    /\ sched = "restore"
    /\ Working("next")
    /\ LET trig == trigger[Head(Unwrap(work).rest)]
           acts == CatchupActs(trig, now)
           res == ActivateAll([token |-> token, trigger |-> trigger], acts)
       IN /\ period(trig).ok
          /\ work' = Some([ stage |-> "txn", kind |-> "catchup", trig |-> trig, acts |-> acts,
                            tokens |-> res.tokens_to_tx, priority |-> CatchupPriority,
                            rest |-> Tail(Unwrap(work).rest) ])
          /\ queue' = CatchupQueue(queue, trig, now)
    /\ UNCHANGED << now, trigger, job, token, sched, sleeping, trigger_rx, token_chan, last,
                    pruned, acted, nupd, nups, flowvars, cb, ncrash, nfail, ingest, twin >>

\* the main loop on a due TriggerTime (the sleep on the popped entry is the
\* wait for it to be due): pop, requeue_next_triggertime, and activate_trigger
\* up to the commit
live_txn ==
    /\ sched = "loop"
    /\ work = None
    /\ \E tt \in DOMAIN queue :
         /\ IsMin(queue, tt)
         /\ tt.scheduled_datetime <= now
         /\ LET trig == trigger[tt.trigger_id]
                res == do_activate_trigger([token |-> token, trigger |-> trigger], tt)
            IN /\ period(trig).ok
               /\ queue' = requeue_next_triggertime([queue |-> Remove(queue, tt), trigger |-> trigger,
                                                      err |-> FALSE], tt).queue
               /\ work' = Some([ stage |-> "txn", kind |-> "live", trig |-> trig, acts |-> << tt >>,
                                 tokens |-> res.tokens_to_tx, priority |-> LivePriority,
                                 rest |-> << >> ])
    /\ UNCHANGED << now, trigger, job, token, sched, sleeping, trigger_rx, token_chan, last,
                    pruned, acted, nupd, nups, flowvars, cb, ncrash, nfail, ingest, twin >>

\* txn.commit(): the writes of the activations reach the database
commit(db, acts) ==
    [ token |-> ActivateAll(db, acts).token, trigger |-> ActivateAll(db, acts).trigger ]

\* mutant: the writes of a dropped transaction reach the database
rollback_keep(db, acts) == commit(db, acts)

\* a Transaction dropped without commit rolls back
rollback(db, acts) == db

\* the commit; catchup_trigger then orders the tokens it collected
txn_commit ==
    /\ Working("txn")
    /\ token' = commit([token |-> token, trigger |-> trigger], Unwrap(work).acts).token
    /\ trigger' = commit([token |-> token, trigger |-> trigger], Unwrap(work).acts).trigger
    /\ acted' = [acted EXCEPT ![Unwrap(work).trig.id] =
                    @ \o [i \in 1..Len(Unwrap(work).acts) |-> Unwrap(work).acts[i].trigger_datetime]]
    /\ \E order \in (IF Unwrap(work).kind = "catchup"
                      THEN CatchupOrders(Unwrap(work).trig, Unwrap(work).tokens)
                      ELSE { Unwrap(work).tokens }) :
         work' = Some([Unwrap(work) EXCEPT !.stage = "send", !.tokens = order])
    /\ UNCHANGED << now, job, queue, sched, sleeping, trigger_rx, token_chan, last, pruned,
                    nupd, nups, flowvars, cb, ncrash, nfail, ingest, twin >>

\* a statement of the transaction or its commit fails: the error is returned
\* with ?, the transaction is dropped, process_triggers returns the error
txn_fails ==
    /\ Working("txn")
    /\ nfail < MaxTxnFails
    /\ token' = rollback([token |-> token, trigger |-> trigger], Unwrap(work).acts).token
    /\ trigger' = rollback([token |-> token, trigger |-> trigger], Unwrap(work).acts).trigger
    /\ work' = None
    /\ sched' = "failed"
    /\ nfail' = nfail + 1
    /\ UNCHANGED << now, job, queue, sleeping, trigger_rx, token_chan, last, pruned, acted,
                    nupd, nups, flowvars, cb, ncrash, ingest, twin >>

\* send_to_token_processor after the commit, then the next trigger of the
\* restore or the main loop
txn_send ==
    /\ Working("send")
    /\ token_chan' = send_to_token_processor(token_chan, Unwrap(work).tokens, Unwrap(work).priority)
    /\ IF Unwrap(work).rest = << >>
       THEN sched' = "loop" /\ work' = None
       ELSE sched' = sched /\ work' = Some([stage |-> "next", rest |-> Unwrap(work).rest])
    /\ UNCHANGED << now, trigger, job, token, queue, sleeping, trigger_rx, last, pruned, acted,
                    nupd, nups, flowvars, cb, ncrash, nfail, ingest, twin >>

\* the server process dies and is started again: the database and the bus
\* queue stay, the heap, the mailboxes and an open transaction are gone
crash ==
    /\ ncrash < MaxCrashes
    /\ sched' = "start"
    /\ work' = None
    /\ queue' = EmptyBag
    /\ sleeping' = None
    /\ trigger_rx' = << >>
    /\ token_chan' = << >>
    /\ progress' = "run"
    /\ ingest' = None
    /\ ncrash' = ncrash + 1
    /\ UNCHANGED << now, trigger, job, token, last, pruned, acted, nupd, nups,
                    results, dispatched, nres, nredel, npoison, cb, nfail, twin >>

\* -------------------------------------------------- supervision (util.rs)
\* CircuitBreaker::new(5, Duration::minutes(1)); one unit of the clock is one
\* minute here
CB_MAX == 5
CB_PERIOD == 1

\* the failures the breaker still counts at time t
Recent(fails, t) == SelectSeq(fails, LAMBDA f : f > t - CB_PERIOD)

\* CircuitBreaker::retry after a failure at time t: the failure is recorded
\* and the retry refused once CB_MAX failures lie within CB_PERIOD
RecordFailure(fails, t) == Append(Recent(fails, t), t)
Tripped(fails) == Len(fails) >= CB_MAX

\* spawn_retry: process_triggers returned an error and is run again, with a
\* fresh heap
spawn_retry_triggers ==
    /\ sched = "failed"
    /\ ~Tripped(RecordFailure(cb, now))
    /\ cb' = RecordFailure(cb, now)
    /\ sched' = "start"
    /\ queue' = EmptyBag
    /\ sleeping' = None
    /\ UNCHANGED << now, trigger, job, token, trigger_rx, token_chan, last, pruned, acted,
                    nupd, nups, flowvars, work, ncrash, nfail, ingest, twin >>

\* a statement of the scheduler fails (connection lost) and process_triggers
\* returns the error with ?; what it had written was committed or rolled
\* back, and its heap goes with it
process_triggers_fails ==
    /\ sched \in {"loop", "sleep"}
    /\ nfail < MaxTxnFails
    /\ sched' = "failed"
    /\ nfail' = nfail + 1
    /\ UNCHANGED << now, trigger, job, token, queue, sleeping, trigger_rx, token_chan, last,
                    pruned, acted, nupd, nups, flowvars, cb, work, ncrash, ingest, twin >>

\* spawn_retry: the breaker refuses the retry, std::process::exit(1)
spawn_retry_abort ==
    /\ sched = "failed"
    /\ Tripped(RecordFailure(cb, now))
    /\ cb' = RecordFailure(cb, now)
    /\ sched' = "exited"
    /\ queue' = EmptyBag
    /\ sleeping' = None
    /\ UNCHANGED << now, trigger, job, token, trigger_rx, token_chan, last, pruned, acted,
                    nupd, nups, flowvars, work, ncrash, nfail, ingest, twin >>

\* try_recv returns Closed (every sender of the mailbox is gone): panic! inside
\* the spawned task, which ends the task and leaves the process running
trigger_rx_closed ==
    /\ sched = "loop"
    /\ trigger_rx = << >>
    /\ sched' = "panicked"
    /\ UNCHANGED << now, trigger, job, token, queue, sleeping, trigger_rx, token_chan, last,
                    pruned, acted, nupd, nups, flowvars, supvars >>

\* ------------------------------------------------------------- environment
Tick ==
    /\ now < MaxTime
    /\ now' = now + 1
    /\ UNCHANGED << trigger, job, token, queue, sched, sleeping, trigger_rx,
                    token_chan, last, pruned, acted, nupd, nups, flowvars, supvars >>

\* the HTTP layer pauses or unpauses a job and notifies the scheduler
SetPaused ==
    /\ nupd < MaxUpdates
    /\ \E id \in Rows :
         /\ job' = [job EXCEPT ![id] = ~@]
         /\ trigger_rx' = Append(trigger_rx, id)
    /\ nupd' = nupd + 1
    /\ UNCHANGED << now, trigger, token, queue, sched, sleeping, token_chan,
                    last, pruned, acted, nups, flowvars, supvars >>

\* the HTTP layer notifies the scheduler of a created, edited or deleted trigger
PostTriggerUpdate ==
    /\ nupd < MaxUpdates
    /\ \E id \in Ids : trigger_rx' = Append(trigger_rx, id)
    /\ nupd' = nupd + 1
    /\ UNCHANGED << now, trigger, job, token, queue, sched, sleeping, token_chan,
                    last, pruned, acted, nups, flowvars, supvars >>

\* api/job.rs create, for a job whose trigger exists: UPDATE trigger SET ...
UpsertRows == {"T1"}
UpsertStarts == {0, 1}
UpsertEnds == {None, Some(3)}
UpsertPeriods == {1, 2}

JobUpsert ==
    /\ nups < MaxUpserts
    /\ \E id \in UpsertRows, s \in UpsertStarts, e \in UpsertEnds, p \in UpsertPeriods :
         trigger' = [trigger EXCEPT ![id].start_datetime = s,
                                    ![id].end_datetime = e,
                                    ![id].period = p]
    /\ nups' = nups + 1
    /\ UNCHANGED << now, job, token, queue, sched, sleeping, trigger_rx, token_chan,
                    last, pruned, acted, nupd, flowvars, supvars >>

\* api/job.rs create, for a trigger name the job does not have yet: INSERT INTO
\* trigger with NULL watermarks; the columns the statement leaves out take
\* their defaults (no offset, no cron, a catchup policy that backfills or
\* not). The handler writes no trigger_edge row, so the new trigger has none
\* and the orders of the backfilling policies do not differ.
CreateCatchups == {"None", "Earliest"}

JobCreate ==
    /\ nups < MaxUpserts
    /\ "T3" \notin DOMAIN trigger
    /\ \E s \in UpsertStarts, e \in UpsertEnds, p \in UpsertPeriods, c \in CreateCatchups :
         trigger' = trigger @@ ("T3" :>
             [ id |-> "T3", start_datetime |-> s, end_datetime |-> e,
               earliest_trigger_datetime |-> None, latest_trigger_datetime |-> None,
               period |-> p, cron |-> None, trigger_offset |-> None, catchup |-> c ])
    /\ job' = job @@ ("T3" :> FALSE)
    /\ nups' = nups + 1
    /\ UNCHANGED << now, token, queue, sched, sleeping, trigger_rx, token_chan,
                    last, pruned, acted, nupd, flowvars, supvars >>

\* SQLSTATE codes as digit strings: unique_violation, foreign_key_violation,
\* serialization_failure
PG_INTEGRITY_ERROR == << 2, 3 >>
SqlStates == { << 2, 3, 5, 0, 5 >>, << 2, 3, 5, 0, 3 >>, << 4, 0, 0, 0, 1 >> }

is_pg_integrity_error(code) == SubSeq(code, 1, 2) = PG_INTEGRITY_ERROR

\* the result of executing a statement: done, a database error with its
\* SQLSTATE, or another sqlx error (connection lost)
StmtResults == { [kind |-> "ok"], [kind |-> "io"] } \cup { [kind |-> "db", code |-> c] : c \in SqlStates }

\* the response of create: the job statement goes through pg_error and the
\* integrity check, the trigger statements through ? alone
create_status(job_res, trigger_res) ==
    IF job_res.kind = "io" THEN 500
    ELSE IF job_res.kind = "db"
         THEN IF is_pg_integrity_error(job_res.code) THEN 409 ELSE 500
    ELSE IF trigger_res.kind /= "ok" THEN 500
    ELSE 201

\* create when one of its statements fails: the handler returns before the
\* commit and the transaction is rolled back when it is dropped
create_fails ==
    /\ nups < MaxUpserts
    /\ \E job_res \in StmtResults, trigger_res \in StmtResults :
         /\ create_status(job_res, trigger_res) /= 201
         /\ last' = [ op |-> "create", runs |-> << >>,
                      stmt |-> IF job_res.kind /= "ok" THEN "job" ELSE "trigger",
                      failed |-> IF job_res.kind /= "ok" THEN job_res ELSE trigger_res,
                      status |-> create_status(job_res, trigger_res) ]
    /\ nups' = nups + 1
    /\ UNCHANGED << now, trigger, job, token, queue, sched, sleeping, trigger_rx, token_chan,
                    pruned, acted, nupd, flowvars, supvars >>

\* ------------------------------------------------- a second server process
\* a second process runs process_triggers and its own token processor against
\* the same database; its heap, its sleep and its ProcessToken mailbox are its
\* own
TwinOff == [ sched |-> "off", queue |-> EmptyBag, sleeping |-> None, chan |-> << >> ]
TwinStart == [TwinOff EXCEPT !.sched = "start"]

\* the second process's view: the shared tables, its own heap and mailbox
TwinState(op) == [SchedState(op) EXCEPT !.queue = twin.queue, !.token_chan = twin.chan]

\* the tables are shared; the heap and the mailbox written are the twin's
TwinCommit(st, pos, slp) ==
    /\ token' = st.token
    /\ trigger' = st.trigger
    /\ acted' = st.acted
    /\ last' = st.last
    /\ twin' = [ sched |-> After(st, pos), queue |-> st.queue, sleeping |-> slp,
                 chan |-> st.token_chan ]
    /\ UNCHANGED << now, job, queue, sched, sleeping, trigger_rx, token_chan, pruned,
                    nupd, nups, flowvars, cb, work, ncrash, nfail, ingest >>

\* process_triggers of the second process up to the main loop
twin_restore ==
    /\ twin.sched = "start"
    /\ \E c \in Cursors :
         \E st \in restore_triggers([TwinState("restore") EXCEPT !.queue = EmptyBag], c) :
            TwinCommit(st, "loop", None)

\* the second process pops its next TriggerTime: sleep on it, or fire it
twin_pop ==
    /\ twin.sched = "loop"
    /\ \E tt \in DOMAIN twin.queue :
         /\ IsMin(twin.queue, tt)
         /\ LET popped == [TwinState("pop") EXCEPT !.queue = Remove(twin.queue, tt)]
            IN IF tt.scheduled_datetime - now > 0
               THEN TwinCommit(popped, "sleep", Some(tt))
               ELSE TwinCommit(FireLive(popped, tt), "loop", None)

\* the sleep of the second process completed
twin_wake ==
    /\ twin.sched = "sleep"
    /\ now >= Unwrap(twin.sleeping).scheduled_datetime
    /\ TwinCommit(FireLive(TwinState("wake"), Unwrap(twin.sleeping)), "loop", None)

\* the token processor of the second process: the same threshold check on the
\* shared token table, fed by its own mailbox
twin_process_tokens ==
    /\ twin.chan /= << >>
    /\ LET k == TokenKey(Head(twin.chan).token)
       IN IF Eligible(token, k)
          THEN /\ token' = [token EXCEPT ![k].state = "active"]
               /\ dispatched' = dispatched (+) SetToBag({k})
          ELSE UNCHANGED << token, dispatched >>
    /\ twin' = [twin EXCEPT !.chan = Tail(@)]
    /\ last' = [ op |-> "check", runs |-> << >>, key |-> TokenKey(Head(twin.chan).token),
                 activated |-> Eligible(token, TokenKey(Head(twin.chan).token)) ]
    /\ UNCHANGED << now, trigger, job, queue, sched, sleeping, trigger_rx, token_chan, pruned,
                    acted, nupd, nups, results, progress, nres, nredel, npoison,
                    cb, work, ncrash, nfail, ingest >>

\* ------------------------------------------------------------------- Init
InitTrigger(id, p, off, c) ==
    [ id |-> id, start_datetime |-> 1, end_datetime |-> None,
      earliest_trigger_datetime |-> None, latest_trigger_datetime |-> None,
      period |-> p, cron |-> None, trigger_offset |-> off, catchup |-> c ]

Init ==
    /\ now = 0
    /\ \E p \in {1, 2}, off \in {None, Some(1)}, c \in {"None", "Earliest", "Latest"} :
         trigger = [ id \in Rows |->
             IF id = "T1" THEN InitTrigger(id, p, off, c)
             ELSE InitTrigger(id, 2, None, "Random") ]
    /\ job = [id \in Rows |-> id = "T2"]          \* the job of T2 starts paused
    /\ token = << >>
    /\ queue = EmptyBag
    /\ sched = "start"
    /\ sleeping = None
    /\ trigger_rx = << >>
    /\ token_chan = << >>
    /\ last = [op |-> "none", runs |-> << >>]
    /\ pruned = {}
    /\ acted = [id \in Ids |-> << >>]
    /\ nupd = 0
    /\ nups = 0
    /\ results = << >>
    /\ progress = "run"
    /\ dispatched = EmptyBag
    /\ nres = 0
    /\ nredel = 0
    /\ npoison = 0
    /\ cb = << >>
    /\ work = None
    /\ ncrash = 0
    /\ nfail = 0
    /\ ingest = None
    /\ twin = TwinOff

Next ==
    \/ Restore
    \/ DrainUpdate
    \/ PopNext
    \/ SleepWake
    \/ SleepUpdate
    \/ Tick
    \/ SetPaused
    \/ PostTriggerUpdate
    \/ JobUpsert

Spec == Init /\ [][Next]_vars

\* the dataflow: a fixed pair of triggers fired by the scheduler, the token
\* processor, the workers and the progress ingester
FlowInit ==
    /\ now = 0
    /\ trigger = [ id \in Rows |->
           IF id = "T1" THEN InitTrigger(id, 1, None, "Earliest")
           ELSE InitTrigger(id, 2, None, "Random") ]
    /\ job = [id \in Rows |-> FALSE]
    /\ token = << >>
    /\ queue = EmptyBag
    /\ sched = "start"
    /\ sleeping = None
    /\ trigger_rx = << >>
    /\ token_chan = << >>
    /\ last = [op |-> "none", runs |-> << >>]
    /\ pruned = {}
    /\ acted = [id \in Ids |-> << >>]
    /\ nupd = 0
    /\ nups = 0
    /\ results = << >>
    /\ progress = "run"
    /\ dispatched = EmptyBag
    /\ nres = 0
    /\ nredel = 0
    /\ npoison = 0
    /\ cb = << >>
    /\ work = None
    /\ ncrash = 0
    /\ nfail = 0
    /\ ingest = None
    /\ twin = TwinOff

FlowNext ==
    \/ Restore
    \/ PopNext
    \/ SleepWake
    \/ Tick
    \/ process_tokens
    \/ WorkerRun
    \/ PostPoison
    \/ process_progress
    \/ process_progress_ack_fails
    \/ process_progress_decode_fails
    \/ spawn_retry

FlowSpec == FlowInit /\ [][FlowNext]_vars

\* the admin surface: the scheduler with the job endpoint creating and editing
\* triggers, and failing
AdminInit ==
    /\ now = 0
    /\ trigger = [ id \in Rows |->
           IF id = "T1" THEN InitTrigger(id, 1, None, "Earliest")
           ELSE InitTrigger(id, 2, None, "Random") ]
    /\ job = [id \in Rows |-> id = "T2"]
    /\ token = << >>
    /\ queue = EmptyBag
    /\ sched = "start"
    /\ sleeping = None
    /\ trigger_rx = << >>
    /\ token_chan = << >>
    /\ last = [op |-> "none", runs |-> << >>]
    /\ pruned = {}
    /\ acted = [id \in Ids |-> << >>]
    /\ nupd = 0
    /\ nups = 0
    /\ results = << >>
    /\ progress = "run"
    /\ dispatched = EmptyBag
    /\ nres = 0
    /\ nredel = 0
    /\ npoison = 0
    /\ cb = << >>
    /\ work = None
    /\ ncrash = 0
    /\ nfail = 0
    /\ ingest = None
    /\ twin = TwinOff

AdminNext ==
    \/ Restore
    \/ DrainUpdate
    \/ PopNext
    \/ SleepWake
    \/ SleepUpdate
    \/ Tick
    \/ PostTriggerUpdate
    \/ JobUpsert
    \/ JobCreate
    \/ create_fails

AdminSpec == AdminInit /\ [][AdminNext]_vars

\* the supervised scheduler with a trigger whose cron expression does not
\* parse (T2), next to a trigger with a period or a cron schedule (T1)
FaultInit ==
    /\ now = 0
    /\ \E c \in {None, Some(<< "every", 2 >>)}, paused \in BOOLEAN :
         /\ trigger = [ id \in Rows |->
                IF id = "T1" THEN [InitTrigger(id, 1, None, "Earliest") EXCEPT !.cron = c]
                ELSE [InitTrigger(id, 2, None, "Random") EXCEPT !.cron = Some(<< "bad" >>)] ]
         /\ job = [id \in Rows |-> id = "T2" /\ paused]
    /\ token = << >>
    /\ queue = EmptyBag
    /\ sched = "start"
    /\ sleeping = None
    /\ trigger_rx = << >>
    /\ token_chan = << >>
    /\ last = [op |-> "none", runs |-> << >>]
    /\ pruned = {}
    /\ acted = [id \in Ids |-> << >>]
    /\ nupd = 0
    /\ nups = 0
    /\ results = << >>
    /\ progress = "run"
    /\ dispatched = EmptyBag
    /\ nres = 0
    /\ nredel = 0
    /\ npoison = 0
    /\ cb = << >>
    /\ work = None
    /\ ncrash = 0
    /\ nfail = 0
    /\ ingest = None
    /\ twin = TwinOff

FaultNext ==
    \/ Restore
    \/ DrainUpdate
    \/ PopNext
    \/ SleepWake
    \/ SleepUpdate
    \/ Tick
    \/ SetPaused
    \/ PostTriggerUpdate
    \/ spawn_retry_triggers
    \/ spawn_retry_abort
    \/ trigger_rx_closed

FaultSpec == FaultInit /\ [][FaultNext]_vars

\* the dataflow with the ingester step by step, its transaction or its
\* acknowledgement failing; the job of T2 is paused, so that only T1 fires
IngestInit ==
    /\ now = 0
    /\ trigger = [ id \in Rows |->
           IF id = "T1" THEN InitTrigger(id, 1, None, "Earliest")
           ELSE InitTrigger(id, 2, None, "Random") ]
    /\ job = [id \in Rows |-> id = "T2"]
    /\ token = << >>
    /\ queue = EmptyBag
    /\ sched = "start"
    /\ sleeping = None
    /\ trigger_rx = << >>
    /\ token_chan = << >>
    /\ last = [op |-> "none", runs |-> << >>]
    /\ pruned = {}
    /\ acted = [id \in Ids |-> << >>]
    /\ nupd = 0
    /\ nups = 0
    /\ results = << >>
    /\ progress = "run"
    /\ dispatched = EmptyBag
    /\ nres = 0
    /\ nredel = 0
    /\ npoison = 0
    /\ cb = << >>
    /\ work = None
    /\ ncrash = 0
    /\ nfail = 0
    /\ ingest = None
    /\ twin = TwinOff

IngestNext ==
    \/ Restore
    \/ PopNext
    \/ SleepWake
    \/ Tick
    \/ process_tokens
    \/ WorkerRun
    \/ progress_txn
    \/ progress_txn_fails
    \/ progress_commit
    \/ progress_ack
    \/ progress_ack_fails
    \/ progress_send
    \/ spawn_retry

IngestSpec == IngestInit /\ [][IngestNext]_vars

\* the scheduler over its whole life: restores, live firings, interrupted
\* sleeps, updates, job upserts, and restarts after an error; T1 backfills
\* and has no offset or one of two units
RestartInit ==
    /\ now = 0
    /\ \E off \in {None, Some(2)} :
         trigger = [ id \in Rows |->
             IF id = "T1" THEN InitTrigger(id, 1, off, "Earliest")
             ELSE InitTrigger(id, 2, None, "Random") ]
    /\ job = [id \in Rows |-> id = "T2"]
    /\ token = << >>
    /\ queue = EmptyBag
    /\ sched = "start"
    /\ sleeping = None
    /\ trigger_rx = << >>
    /\ token_chan = << >>
    /\ last = [op |-> "none", runs |-> << >>]
    /\ pruned = {}
    /\ acted = [id \in Ids |-> << >>]
    /\ nupd = 0
    /\ nups = 0
    /\ results = << >>
    /\ progress = "run"
    /\ dispatched = EmptyBag
    /\ nres = 0
    /\ nredel = 0
    /\ npoison = 0
    /\ cb = << >>
    /\ work = None
    /\ ncrash = 0
    /\ nfail = 0
    /\ ingest = None
    /\ twin = TwinOff

RestartNext ==
    \/ Restore
    \/ DrainUpdate
    \/ PopNext
    \/ SleepWake
    \/ SleepUpdate
    \/ Tick
    \/ PostTriggerUpdate
    \/ JobUpsert
    \/ process_triggers_fails
    \/ spawn_retry_triggers

RestartSpec == RestartInit /\ [][RestartNext]_vars

\* the scheduler transaction by transaction, with the token processor, failing
\* transactions and crashes of the process
CrashInit ==
    /\ now = 0
    /\ trigger = [ id \in Rows |->
           IF id = "T1" THEN [InitTrigger(id, 1, None, "Earliest") EXCEPT !.start_datetime = 0]
           ELSE InitTrigger(id, 2, None, "Random") ]
    /\ job = [id \in Rows |-> FALSE]
    /\ token = << >>
    /\ queue = EmptyBag
    /\ sched = "start"
    /\ sleeping = None
    /\ trigger_rx = << >>
    /\ token_chan = << >>
    /\ last = [op |-> "none", runs |-> << >>]
    /\ pruned = {}
    /\ acted = [id \in Ids |-> << >>]
    /\ nupd = 0
    /\ nups = 0
    /\ results = << >>
    /\ progress = "run"
    /\ dispatched = EmptyBag
    /\ nres = 0
    /\ nredel = 0
    /\ npoison = 0
    /\ cb = << >>
    /\ work = None
    /\ ncrash = 0
    /\ nfail = 0
    /\ ingest = None
    /\ twin = TwinOff

CrashNext ==
    \/ restore_begin
    \/ catchup_txn
    \/ live_txn
    \/ txn_commit
    \/ txn_fails
    \/ txn_send
    \/ crash
    \/ spawn_retry_triggers
    \/ process_tokens
    \/ Tick

CrashSpec == CrashInit /\ [][CrashNext]_vars

\* one server process or two against the same database, with their token
\* processors
TwinInit ==
    /\ now = 0
    /\ trigger = [ id \in Rows |->
           IF id = "T1" THEN InitTrigger(id, 1, None, "Earliest")
           ELSE InitTrigger(id, 2, None, "Random") ]
    /\ job = [id \in Rows |-> id = "T2"]
    /\ token = << >>
    /\ queue = EmptyBag
    /\ sched = "start"
    /\ sleeping = None
    /\ trigger_rx = << >>
    /\ token_chan = << >>
    /\ last = [op |-> "none", runs |-> << >>]
    /\ pruned = {}
    /\ acted = [id \in Ids |-> << >>]
    /\ nupd = 0
    /\ nups = 0
    /\ results = << >>
    /\ progress = "run"
    /\ dispatched = EmptyBag
    /\ nres = 0
    /\ nredel = 0
    /\ npoison = 0
    /\ cb = << >>
    /\ work = None
    /\ ncrash = 0
    /\ nfail = 0
    /\ ingest = None
    /\ twin \in {TwinOff, TwinStart}

TwinNext ==
    \/ Restore
    \/ PopNext
    \/ SleepWake
    \/ Tick
    \/ process_tokens
    \/ twin_restore
    \/ twin_pop
    \/ twin_wake
    \/ twin_process_tokens

TwinSpec == TwinInit /\ [][TwinNext]_vars

\* ===================================================================== claims
Range(f) == { f[i] : i \in DOMAIN f }
Terminal == { Some("success"), Some("failure") }
Runs(kind) == { r \in Range(last.runs) : r.kind = kind }

\* C1: every token row satisfies 0 <= count <= threshold, the threshold being
\* the number of task_edge rows whose child is the token's task.
C1_CountWithinThreshold ==
    \A k \in DOMAIN token :
        /\ 0 <= token[k].count
        /\ token[k].count <= token[k].threshold
        /\ token[k].threshold = InDegree(k[1])

\* C2: a token is moved from waiting to active and dispatched exactly once,
\* and only with count >= threshold: no token is dispatched twice, a token
\* that left waiting was dispatched once with its count at the threshold, and
\* a waiting token whose count has reached the threshold has a check pending
\* (a ProcessToken in the mailbox, or a TaskResult awaiting redelivery).
PendingCheck(k) ==
    \/ \E i \in DOMAIN token_chan : TokenKey(token_chan[i].token) = k
    \/ \E i \in DOMAIN results :
         results[i].valid /\ \E t \in Range(ChildTokens(results[i])) : TokenKey(t) = k

C2_ActivatedExactlyOnce ==
    /\ \A k \in BagToSet(dispatched) : CopiesIn(k, dispatched) = 1
    /\ \A k \in DOMAIN token :
         /\ token[k].state /= "waiting" =>
              CopiesIn(k, dispatched) = 1 /\ token[k].count >= token[k].threshold
         /\ token[k].state = "waiting" => CopiesIn(k, dispatched) = 0
         /\ Eligible(token, k) => PendingCheck(k)

\* a token with two prerequisites, incremented by the scheduler and by the
\* ingester, has just been activated by the check
C2_Witness ==
    /\ last.op = "check" /\ last.activated
    /\ last.key = << "C", 1 >>
    /\ token[<< "C", 1 >>].count = 2
    /\ Len(acted["T2"]) >= 1
    /\ token[<< "A", 1 >>].state = "success"

\* C3: a delivery of a TaskResult whose parent token is already terminal
\* increments no child token and publishes no ProcessToken.
C3_RedeliveryIdempotent ==
    (last.op = "ingest" /\ last.parent_before \in Terminal) =>
        (last.incremented = {} /\ last.sent = << >>)

\* C4: every token datetime emitted by an activation (the activation's
\* trigger_datetime plus the edge's edge_offset) lies within the trigger's
\* [earliest_trigger_datetime, latest_trigger_datetime].
Bracketed(id, d) ==
    /\ IsSome(trigger[id].earliest_trigger_datetime)
    /\ IsSome(trigger[id].latest_trigger_datetime)
    /\ Unwrap(trigger[id].earliest_trigger_datetime) <= d
    /\ d <= Unwrap(trigger[id].latest_trigger_datetime)

C4_TokensBracketed ==
    \A id \in Rows : \A d \in Range(acted[id]) : \A e \in Range(trigger_edge[id]) :
        Bracketed(id, d + UnwrapOr(e.edge_offset, 0))

\* C4 as amended: every trigger_datetime at which the trigger was activated,
\* that is every emitted token datetime minus its edge_offset, lies within
\* [earliest_trigger_datetime, latest_trigger_datetime].
C4_ActivationsBracketed ==
    \A id \in Rows : \A d \in Range(acted[id]) : Bracketed(id, d)

\* a trigger activated at two datetimes, with watermarks apart
C4_Witness ==
    /\ Len(acted["T1"]) >= 2
    /\ Unwrap(trigger["T1"].earliest_trigger_datetime) < Unwrap(trigger["T1"].latest_trigger_datetime)

\* C5: over every step, a set earliest_trigger_datetime stays set and never
\* increases, and a set latest_trigger_datetime stays set and never decreases;
\* a watermark changes only in a step that activates the trigger, and an
\* unset watermark takes the value of an activated datetime.
WatermarksMonotone(id) ==
    /\ IsSome(trigger[id].earliest_trigger_datetime) =>
         /\ IsSome(trigger'[id].earliest_trigger_datetime)
         /\ Unwrap(trigger'[id].earliest_trigger_datetime) <= Unwrap(trigger[id].earliest_trigger_datetime)
    /\ IsSome(trigger[id].latest_trigger_datetime) =>
         /\ IsSome(trigger'[id].latest_trigger_datetime)
         /\ Unwrap(trigger'[id].latest_trigger_datetime) >= Unwrap(trigger[id].latest_trigger_datetime)
    /\ (\/ trigger'[id].earliest_trigger_datetime /= trigger[id].earliest_trigger_datetime
        \/ trigger'[id].latest_trigger_datetime /= trigger[id].latest_trigger_datetime) =>
         /\ Len(acted'[id]) > Len(acted[id])
         /\ Unwrap(trigger'[id].earliest_trigger_datetime) \in Range(acted'[id])
         /\ Unwrap(trigger'[id].latest_trigger_datetime) \in Range(acted'[id])

C5_WatermarksMonotone == [][\A id \in Rows : WatermarksMonotone(id)]_vars

\* a job upsert moved the start before the earliest firing and the catchup
\* that followed lowered earliest while latest kept its value
C5_Witness ==
    /\ nups >= 1
    /\ \E r \in Runs("catchup") :
         /\ r.trig.id = "T1"
         /\ IsSome(r.trig.earliest_trigger_datetime)
         /\ r.trig.start_datetime < Unwrap(r.trig.earliest_trigger_datetime)
         /\ Unwrap(trigger["T1"].earliest_trigger_datetime) < Unwrap(r.trig.earliest_trigger_datetime)
         /\ Unwrap(trigger["T1"].latest_trigger_datetime) >= Unwrap(r.trig.latest_trigger_datetime)

\* C6: a catchup run performs ceil((min(now, end) - X) / P) activations, X
\* being latest_trigger_datetime if the trigger fired before and
\* start_datetime otherwise (policy not None, start not moved before
\* earliest, min(now, end) not before X), and none when the policy is None.
CeilDiv(a, p) == 0 - ((0 - a) \div p)

StartMovedBack(trig) ==
    IsSome(trig.earliest_trigger_datetime) /\ trig.start_datetime < Unwrap(trig.earliest_trigger_datetime)

LatestOrStart(trig) ==
    IF IsSome(trig.latest_trigger_datetime) THEN Unwrap(trig.latest_trigger_datetime)
    ELSE trig.start_datetime

C6_CatchupCount ==
    \A r \in Runs("catchup") :
        /\ (/\ r.trig.catchup /= "None"
            /\ ~StartMovedBack(r.trig)
            /\ CatchupLast(r.trig, r.now) >= LatestOrStart(r.trig)) =>
             Len(r.acts) = CeilDiv(CatchupLast(r.trig, r.now) - LatestOrStart(r.trig), r.trig.period)
        /\ r.trig.catchup = "None" => Len(r.acts) = 0

\* C6 as amended: the count is max(0, ceil((min(now, end) - X) / P)) with X
\* = latest_trigger_datetime + P if the trigger fired before and
\* start_datetime otherwise; none when the policy is None.
C6_CatchupCountFromNext ==
    \A r \in Runs("catchup") :
        /\ (r.trig.catchup /= "None" /\ ~StartMovedBack(r.trig)) =>
             Len(r.acts) = Max2(0, CeilDiv(CatchupLast(r.trig, r.now)
                                    - (IF IsSome(r.trig.latest_trigger_datetime)
                                       THEN Unwrap(r.trig.latest_trigger_datetime) + r.trig.period
                                       ELSE r.trig.start_datetime),
                                   r.trig.period))
        /\ r.trig.catchup = "None" => Len(r.acts) = 0

\* a catchup of a trigger that fired before and has a period to make up
C6_Witness ==
    \E r \in Runs("catchup") :
        /\ r.trig.catchup /= "None"
        /\ ~StartMovedBack(r.trig)
        /\ IsSome(r.trig.latest_trigger_datetime)
        /\ Len(r.acts) >= 1

\* C7: a catchup run posts the tokens it collected in the order of the
\* policy: non-decreasing trigger_datetime for Earliest, non-increasing for
\* Latest, and for every policy a permutation of the collected tokens.
SeqToBag(q) == [ x \in Range(q) |-> Cardinality({ i \in DOMAIN q : q[i] = x }) ]
SentTokens(r) == [ i \in DOMAIN r.sent |-> r.sent[i].token ]

C7_CatchupOrder ==
    \A r \in Runs("catchup") :
        /\ SeqToBag(SentTokens(r)) = SeqToBag(r.tokens)
        /\ r.trig.catchup = "Earliest" =>
             \A i, j \in DOMAIN r.sent :
                 i < j => r.sent[i].token.trigger_datetime <= r.sent[j].token.trigger_datetime
        /\ r.trig.catchup = "Latest" =>
             \A i, j \in DOMAIN r.sent :
                 i < j => r.sent[i].token.trigger_datetime >= r.sent[j].token.trigger_datetime

\* a Latest catchup whose posting order differs from the order of the writes
C7_Witness ==
    \E r \in Runs("catchup") :
        r.trig.catchup = "Latest" /\ Len(r.tokens) >= 4 /\ SentTokens(r) /= r.tokens

\* C8: every message of a catchup run has priority BackFill, every message
\* of a live firing has priority Normal, and the scheduler posts no other.
C8_Priorities ==
    /\ \A r \in Runs("catchup") : \A m \in Range(r.sent) : m.priority = "BackFill"
    /\ \A r \in Runs("live") : \A m \in Range(r.sent) : m.priority = "Normal"
    /\ \A m \in Range(token_chan) : m.kind = "Increment" /\ m.priority \in {"BackFill", "Normal"}

\* an overslept entry was fired live after earlier backfill messages
C8_Witness ==
    /\ last.op = "pop"
    /\ \E r \in Runs("live") : r.sent /= << >>
    /\ \E m \in Range(token_chan) : m.priority = "BackFill"

\* C9: once a TriggerUpdate (or the restore) found a trigger without an
\* unpaused row, the heap holds no entry of it, the scheduler sleeps on no
\* entry of it, and it is not activated until an update finds it unpaused.
C9_NoEntry ==
    \A id \in pruned :
        /\ \A tt \in BagToSet(queue) : tt.trigger_id /= id
        /\ IsSome(sleeping) => Unwrap(sleeping).trigger_id /= id

C9_NoActivation == \A id \in Ids : (id \in pruned /\ id \in pruned') => acted'[id] = acted[id]

C9_PausedNotFired == [](C9_NoEntry) /\ [][C9_NoActivation]_vars

\* the job was paused while the scheduler slept on the trigger's own entry,
\* and the time of that entry has passed
C9_Witness ==
    /\ "T1" \in pruned
    /\ job["T1"]
    /\ last.op = "sleep_update"
    /\ now >= 2
    /\ acted["T1"] /= << >>

\* C10: a message that does not decode is acknowledged and dropped, the
\* ingester makes no change for it and keeps running.
C10_PoisonDropped ==
    last.op = "poison" => (progress = "run" /\ last.msg \notin Range(results))

\* C13: for a trigger whose catchup policy is None or Earliest, the token
\* messages the scheduler has published for it, live firings and catchup
\* batches together, are in non-decreasing trigger_datetime order.
Published(id) ==
    SelectSeq(token_chan, LAMBDA m : \E e \in Range(trigger_edge[id]) : e.task_id = m.token.task_id)

C13_PublishedInOrder ==
    \A id \in DOMAIN trigger :
        trigger[id].catchup \in {"None", "Earliest"} =>
            \A i, j \in DOMAIN Published(id) :
                i < j => Published(id)[i].token.trigger_datetime <= Published(id)[j].token.trigger_datetime

\* C14: the progress ingester sets the parent token to the result only when
\* the parent token is in state running.
C14_ParentFromRunning ==
    last.op = "ingest" => last.parent_before = Some("running")

\* C19: a TriggerUpdate that interrupts the sleep on a TriggerTime t loses no
\* firing: when the job of t's trigger is unpaused, the trigger's definition
\* was not edited and the update arrives no later than the end of the sleep,
\* after the update t's trigger_datetime has been activated or the heap
\* holds an entry of the trigger not later than t.
C19_SleepUpdateStep ==
    (sched = "sleep" /\ trigger_rx /= << >> /\ trigger_rx' = Tail(trigger_rx)
        /\ nups = 0 /\ ~job[Unwrap(sleeping).trigger_id]
        /\ now <= Unwrap(sleeping).scheduled_datetime) =>
        \/ Unwrap(sleeping).trigger_datetime \in Range(acted'[Unwrap(sleeping).trigger_id])
        \/ \E e \in DOMAIN queue' :
             /\ e.trigger_id = Unwrap(sleeping).trigger_id
             /\ e.trigger_datetime <= Unwrap(sleeping).trigger_datetime

C19_NoFiringLost == [][C19_SleepUpdateStep]_vars


\* C11: a trigger with a malformed schedule is skipped: the scheduler task
\* does not fail on it, it is neither queued nor activated, and the process
\* is not aborted because of it.
C11_MalformedSkipped ==
    /\ sched \notin {"failed", "exited"}
    /\ \A tt \in DOMAIN queue : period(trigger[tt.trigger_id]).ok
    /\ \A id \in DOMAIN trigger : ~period(trigger[id]).ok => acted[id] = << >>

\* C12: an activation of TriggerTime t emits exactly one token per
\* trigger_edge row of t's trigger, in row order, with the edge's task_id and
\* trigger_datetime = t.trigger_datetime + edge_offset (None counted as 0);
\* every token collected is sent once, and the activated datetime lies within
\* the trigger's watermarks also when the trigger has no edge.
EdgeOffset(e) == IF e.edge_offset = None THEN 0 ELSE e.edge_offset[1]

C12_OneTokenPerEdge ==
    \A r \in Range(last.runs) :
        LET edges == trigger_edge[r.trig.id]
            n == Len(edges)
        IN /\ Len(r.tokens) = Len(r.acts) * n
           /\ Len(r.sent) = Len(r.tokens)
           /\ \A a \in DOMAIN r.acts :
                /\ \A i \in 1..n :
                     /\ r.tokens[(a - 1) * n + i].task_id = edges[i].task_id
                     /\ r.tokens[(a - 1) * n + i].trigger_datetime
                          = r.acts[a].trigger_datetime + EdgeOffset(edges[i])
                /\ IsSome(trigger[r.trig.id].earliest_trigger_datetime)
                /\ IsSome(trigger[r.trig.id].latest_trigger_datetime)
                /\ Unwrap(trigger[r.trig.id].earliest_trigger_datetime) <= r.acts[a].trigger_datetime
                /\ r.acts[a].trigger_datetime <= Unwrap(trigger[r.trig.id].latest_trigger_datetime)

\* a created trigger, which has no edge, was activated and emitted nothing,
\* after the trigger with two edges, one of them offset, had fired
C12_Witness ==
    /\ \E r \in Range(last.runs) :
         r.trig.id = "T3" /\ r.acts /= << >> /\ r.tokens = << >> /\ r.sent = << >>
    /\ IsSome(trigger["T3"].latest_trigger_datetime)
    /\ \E m \in Range(token_chan) : m.token.task_id = "B"

\* C16: the scheduler task is never stopped while the process runs: it
\* either runs, or has failed and is about to be retried, or the process has
\* exited, which happens only with CB_MAX failures within CB_PERIOD.
C16_NeverLeftStopped ==
    /\ sched \in {"start", "loop", "sleep", "failed", "exited"}
    /\ sched = "exited" => Len(Recent(cb, now)) >= CB_MAX

\* C17: a step of the job endpoint that inserts a trigger or changes the
\* start, end or period of one posts a TriggerUpdate with that trigger's id.
C17_UpsertStep ==
    \A id \in DOMAIN trigger' :
        (\/ id \notin DOMAIN trigger
         \/ trigger'[id].start_datetime /= trigger[id].start_datetime
         \/ trigger'[id].end_datetime /= trigger[id].end_datetime
         \/ trigger'[id].period /= trigger[id].period) =>
            /\ Len(trigger_rx') = Len(trigger_rx) + 1
            /\ trigger_rx'[Len(trigger_rx')] = id

C17_UpsertPostsUpdate == [][C17_UpsertStep]_vars

\* C18: a create request that hits an integrity violation (SQLSTATE class
\* 23) is answered 409 and any other failure 500; a failed request changes
\* no trigger and no job row.
C18_FailedStep ==
    (last' /= last /\ last'.op = "create") =>
        /\ trigger' = trigger /\ job' = job
        /\ last'.status = IF last'.failed.kind = "db" /\ last'.failed.code[1] = 2 /\ last'.failed.code[2] = 3
                          THEN 409 ELSE 500

C18_ConflictOnIntegrity == [][C18_FailedStep]_vars

Durable(t) ==
    TokenKey(t) \in DOMAIN token /\ token[TokenKey(t)].count >= 1

C20_Committed ==
    /\ \A i \in DOMAIN token_chan : Durable(token_chan[i].token)
    /\ Working("send") =>
         /\ \A i \in DOMAIN Unwrap(work).tokens : Durable(Unwrap(work).tokens[i])
         /\ \A i \in DOMAIN Unwrap(work).acts :
              LET id == Unwrap(work).trig.id
                  d == Unwrap(work).acts[i].trigger_datetime
              IN /\ IsSome(trigger[id].earliest_trigger_datetime)
                 /\ IsSome(trigger[id].latest_trigger_datetime)
                 /\ Unwrap(trigger[id].earliest_trigger_datetime) <= d
                 /\ d <= Unwrap(trigger[id].latest_trigger_datetime)

C20_Step ==
    /\ Len(token_chan') > Len(token_chan) =>
         /\ Working("send")
         /\ token' = token /\ trigger' = trigger
         /\ token_chan' = send_to_token_processor(token_chan, Unwrap(work).tokens,
                                                  Unwrap(work).priority)
    /\ (Working("txn") /\ work' /= work /\ ~Working("send")') =>
         /\ token' = token /\ trigger' = trigger
         /\ Len(token_chan') <= Len(token_chan)
         /\ work' = None

C20_PublishAfterCommit == [](C20_Committed) /\ [][C20_Step]_vars

\* C20's case: a catchup batch of two activations is committed and about to
\* be published, after an earlier transaction failed
C20_Witness ==
    /\ Working("send")
    /\ Len(Unwrap(work).acts) >= 2
    /\ Unwrap(work).tokens /= << >>
    /\ nfail >= 1

\* C21: the ingester acknowledges a delivery only after the transaction
\* with the child increments and the parent update has committed, and
\* publishes the children only after the acknowledgement; a failure before
\* the commit leaves the delivery with the broker and the database as it was.
C21_Unacked ==
    (Ingesting("txn") \/ Ingesting("ack")) =>
        results /= << >> /\ Head(results) = Unwrap(ingest).msg

C21_Step ==
    /\ Len(results') < Len(results) =>
         /\ Ingesting("ack")
         /\ ParentState(token, Unwrap(ingest).msg) = Some(Unwrap(ingest).msg.result)
         /\ \A i \in DOMAIN Unwrap(ingest).tokens : Durable(Unwrap(ingest).tokens[i])
         /\ token' = token /\ token_chan' = token_chan
    /\ Ingesting("ack")' =>
         \/ Ingesting("ack")
         \/ Ingesting("txn") /\ token' = ProgressTxn(token, Unwrap(ingest).msg)
    /\ (ingest' /= ingest /\ Len(token_chan') > Len(token_chan)) =>
         /\ Ingesting("send")
         /\ token_chan' = send_children(token_chan, Unwrap(ingest).tokens)
    /\ Ingesting("send")' =>
         \/ Ingesting("send")
         \/ Ingesting("ack") /\ results' = Tail(results)
    /\ (Ingesting("txn") /\ ingest' /= ingest /\ ~Ingesting("ack")') =>
         /\ token' = token
         /\ results' = results
         /\ token_chan' = token_chan
         /\ progress' = "err"

C21_AckAfterCommit == [](C21_Unacked) /\ [][C21_Step]_vars

\* C21's case: a delivery whose first transaction failed was redelivered,
\* committed and acknowledged, and its child is about to be published
C21_Witness ==
    /\ Ingesting("send")
    /\ Unwrap(ingest).tokens /= << >>
    /\ nfail >= 1
    /\ results = << >>

\* C22: one delivery of TaskResult(P, d, r) adds exactly 1 to the count of
\* the token (C, d) of every task_edge P -> C of kind r, sets the state of
\* (P, d) to r and changes nothing else: no other count, state or threshold,
\* no token at another datetime, no child of an edge of the other kind, no
\* trigger row.
Children(msg) ==
    { e.child_task_id : e \in { f \in task_edge :
          f.parent_task_id = msg.task_id /\ f.kind = msg.result } }

C22_DeliveryStep ==
    (/\ progress = "run" /\ results /= << >> /\ Head(results).valid
     /\ (results' = Tail(results) \/ nredel' = nredel + 1)) =>
        LET msg == Head(results)
            parent == << msg.task_id, msg.trigger_datetime >>
        IN /\ trigger' = trigger
           /\ parent \in DOMAIN token'
           /\ DOMAIN token' = DOMAIN token \cup { << c, msg.trigger_datetime >> : c \in Children(msg) }
           /\ \A k \in DOMAIN token' :
                /\ token'[k].count = (IF k \in DOMAIN token THEN token[k].count ELSE 0)
                      + (IF k[2] = msg.trigger_datetime /\ k[1] \in Children(msg) THEN 1 ELSE 0)
                /\ token'[k].state = (IF k = parent THEN msg.result
                                      ELSE IF k \in DOMAIN token THEN token[k].state ELSE "waiting")
                /\ k \in DOMAIN token => token'[k].threshold = token[k].threshold

C22_DeliveryFrame == [][C22_DeliveryStep]_vars

\* C22's case: the success of A at 1 raised the existing token of C at 1 to
\* 2, left the failure child D without a token and the tokens at 2 alone
C22_Witness ==
    /\ last.op = "ingest"
    /\ last.msg.task_id = "A" /\ last.msg.result = "success"
    /\ last.incremented = { << "C", 1 >> }
    /\ token[<< "C", 1 >>].count = 2
    /\ << "D", 1 >> \notin DOMAIN token
    /\ << "B", 2 >> \in DOMAIN token

\* a step in which the scheduler ran catchup: the restore, or an update taken
\* from the mailbox; last' then holds the runs of that step
CatchupStep ==
    \/ sched = "start" /\ sched' /= "start"
    \/ trigger_rx /= << >> /\ trigger_rx' = Tail(trigger_rx)

EntriesOf(q, id) == { e \in DOMAIN q : e.trigger_id = id }

\* the first of first, first + period, ... that is not before bound
FirstStepFrom(first, bound, p) ==
    IF first >= bound THEN first ELSE first + p * CeilDiv(bound - first, p)

\* C23: a catchup run of a trigger with policy None activates nothing, in the
\* walk over a start moved backwards or in the walk since latest: it collects
\* and sends no token, changes no token row and no watermark, and the entry
\* it queues is the first period step not before min(now, end_datetime).
C23_NoneStep ==
    CatchupStep =>
        /\ \A r \in Range(last'.runs) :
             r.trig.catchup = "None" =>
                /\ r.acts = << >> /\ r.tokens = << >> /\ r.sent = << >>
                /\ trigger'[r.trig.id] = trigger[r.trig.id]
                /\ acted'[r.trig.id] = acted[r.trig.id]
                /\ \A e \in EntriesOf(queue', r.trig.id) :
                     /\ e.trigger_datetime >= CatchupLast(r.trig, r.now)
                     /\ e.trigger_datetime = FirstStepFrom(
                            IF IsSome(r.trig.latest_trigger_datetime)
                            THEN Unwrap(r.trig.latest_trigger_datetime) + r.trig.period
                            ELSE r.trig.start_datetime,
                            CatchupLast(r.trig, r.now), r.trig.period)
        /\ (\A r \in Range(last'.runs) : r.trig.catchup = "None") =>
             token' = token /\ token_chan' = token_chan /\ trigger' = trigger

C23_NoneActivatesNothing == [][C23_NoneStep]_vars

\* C23's case: a trigger with policy None, whose first firing came after a
\* skipped step so that its start lies before its earliest firing, was
\* caught up on an update; nothing was activated and its next step is queued
C23_Witness ==
    /\ last.op \in {"update", "sleep_update"}
    /\ \E r \in Range(last.runs) :
         /\ r.trig.catchup = "None"
         /\ StartMovedBack(r.trig)
         /\ acted[r.trig.id] = << Unwrap(r.trig.latest_trigger_datetime) >>
         /\ EntriesOf(queue, r.trig.id) /= {}

\* C24: after a catchup run the heap holds for the trigger exactly one
\* entry, at the first period step (from latest_trigger_datetime + period, or
\* from start_datetime if never fired) that is >= min(now, end_datetime),
\* scheduled at that step plus trigger_offset, when end_datetime is null or
\* the step is before it; and no entry of the trigger otherwise.
NextFire(trig, t) ==
    FirstStepFrom(IF IsSome(trig.latest_trigger_datetime)
                  THEN Unwrap(trig.latest_trigger_datetime) + trig.period
                  ELSE trig.start_datetime,
                  IF IsSome(trig.end_datetime) THEN Min2(t, Unwrap(trig.end_datetime)) ELSE t,
                  trig.period)

C24_QueueStep ==
    CatchupStep =>
        \A r \in Runs("catchup")' :
            IF r.trig.end_datetime = None \/ NextFire(r.trig, r.now) < Unwrap(r.trig.end_datetime)
            THEN /\ EntriesOf(queue', r.trig.id) =
                      { [ trigger_id |-> r.trig.id,
                          trigger_datetime |-> NextFire(r.trig, r.now),
                          scheduled_datetime |-> NextFire(r.trig, r.now)
                               + (IF r.trig.trigger_offset = None THEN 0
                                  ELSE r.trig.trigger_offset[1]) ] }
                 /\ \A e \in EntriesOf(queue', r.trig.id) : CopiesIn(e, queue') = 1
            ELSE EntriesOf(queue', r.trig.id) = {}

C24_OneEntryQueued == [][C24_QueueStep]_vars

\* C24's case: an end-dated trigger with an offset was caught up over a
\* missed step and its next step, still before the end, is queued at its
\* scheduled time
C24_Witness ==
    /\ last.op \in {"update", "sleep_update"}
    /\ \E r \in Runs("catchup") :
         /\ IsSome(r.trig.end_datetime)
         /\ IsSome(r.trig.trigger_offset)
         /\ r.acts /= << >>
         /\ \E e \in EntriesOf(queue, r.trig.id) :
              e.scheduled_datetime = e.trigger_datetime + 1 /\ e.trigger_datetime >= r.now

\* a step in which the scheduler fired a TriggerTime live: last' then holds
\* the run of that firing
LiveStep == acted' /= acted /\ last'.op \in {"pop", "wake"}

\* C25: a live firing of TriggerTime t queues the successor
\* t.trigger_datetime + period if and only if end_datetime is null or the
\* successor is before it: an open-ended trigger always gets its successor,
\* no entry at or after the end_datetime is queued, and an end-dated trigger
\* whose successor does not fit has no entry left in the heap.
C25_LiveStep ==
    LiveStep =>
        LET r == last'.runs[1]
            t == r.acts[1]
            succ == [ trigger_id |-> t.trigger_id,
                      trigger_datetime |-> t.trigger_datetime + r.trig.period,
                      scheduled_datetime |-> t.trigger_datetime + r.trig.period
                           + (IF r.trig.trigger_offset = None THEN 0 ELSE r.trig.trigger_offset[1]) ]
            rest == IF sched = "sleep" THEN queue ELSE queue (-) SetToBag({t})
            fits == r.trig.end_datetime = None \/ succ.trigger_datetime < Unwrap(r.trig.end_datetime)
        IN /\ Len(last'.runs) = 1 /\ r.kind = "live" /\ Len(r.acts) = 1
           /\ fits => queue' = rest (+) SetToBag({succ})
           /\ ~fits => queue' = rest /\ EntriesOf(queue', t.trigger_id) = {}
           /\ \A e \in DOMAIN queue' :
                CopiesIn(e, queue') > CopiesIn(e, queue) =>
                    \/ trigger[e.trigger_id].end_datetime = None
                    \/ e.trigger_datetime < Unwrap(trigger[e.trigger_id].end_datetime)

C25_SuccessorQueued == [][C25_LiveStep]_vars

\* C25's case: an end-dated trigger fired live at its last step before the
\* end and fell out of the heap
C25_Witness ==
    /\ last.op \in {"pop", "wake"}
    /\ \E r \in Runs("live") :
         /\ IsSome(r.trig.end_datetime)
         /\ r.acts[1].trigger_datetime + r.trig.period = Unwrap(r.trig.end_datetime)
         /\ EntriesOf(queue, r.trig.id) = {}
         /\ r.acts[1].trigger_datetime \in Range(acted[r.trig.id])

\* C26: a live activation of TriggerTime t happens only with the clock at
\* or after t.scheduled_datetime = t.trigger_datetime + trigger_offset (None
\* counted as 0), at priority Normal, and the entry the scheduler pops, to
\* sleep on it or to fire it, has the minimum scheduled_datetime of the heap.
C26_PopStep ==
    /\ LiveStep =>
         LET r == last'.runs[1]
             t == r.acts[1]
         IN /\ now >= t.scheduled_datetime
            /\ t.scheduled_datetime = t.trigger_datetime
                   + (IF r.trig.trigger_offset = None THEN 0 ELSE r.trig.trigger_offset[1])
            /\ \A m \in Range(r.sent) : m.priority = "Normal"
            /\ sched = "sleep" => t = Unwrap(sleeping)
    /\ (sched = "loop" /\ last'.op = "pop" /\ (sleeping' /= None \/ acted' /= acted)) =>
         LET t == IF sleeping' /= None THEN Unwrap(sleeping') ELSE last'.runs[1].acts[1]
         IN /\ t \in DOMAIN queue
            /\ \A o \in DOMAIN queue : t.scheduled_datetime <= o.scheduled_datetime
            /\ sleeping' /= None => now < t.scheduled_datetime /\ acted' = acted

C26_FiredWhenDue == [][C26_PopStep]_vars

\* C26's case: with two triggers in the heap, the entry of the trigger with
\* an offset was slept on and fired at its scheduled time, one unit after
\* its trigger_datetime
C26_Witness ==
    /\ last.op = "wake"
    /\ \E r \in Runs("live") :
         /\ IsSome(r.trig.trigger_offset)
         /\ r.acts[1].scheduled_datetime = r.acts[1].trigger_datetime + 1
         /\ r.now = r.acts[1].scheduled_datetime
    /\ \E e \in DOMAIN queue : e.trigger_id = "T2"

\* C28: at the start of every iteration of the scheduler's main loop the
\* heap holds at most one TriggerTime per trigger_id.
RECURSIVE CountEntries(_, _, _)
CountEntries(q, S, id) ==
    IF S = {} THEN 0
    ELSE LET e == CHOOSE x \in S : TRUE
         IN (IF e.trigger_id = id THEN CopiesIn(e, q) ELSE 0) + CountEntries(q, S \ {e}, id)

C28_OneEntryPerTrigger ==
    sched = "loop" => \A id \in Ids : CountEntries(queue, DOMAIN queue, id) <= 1

\* C28's case: after a live firing, an update of another trigger interrupted
\* the sleep; the entry slept on was pushed back and the other trigger queued
C28_Witness ==
    /\ sched = "loop"
    /\ last.op = "sleep_update"
    /\ \E r \in Runs("catchup") : r.trig.id = "T2"
    /\ CountEntries(queue, DOMAIN queue, "T1") = 1
    /\ CountEntries(queue, DOMAIN queue, "T2") = 1
    /\ acted["T1"] /= << >>

\* C29: with a single scheduler, each pair (trigger_id, trigger_datetime) is
\* activated at most once, over restores, restarts after errors, updates
\* (also of a start moved backwards), interrupted sleeps and live firings.
C29_ActivatedAtMostOnce ==
    \A id \in Ids : \A i, j \in DOMAIN acted[id] : i /= j => acted[id][i] /= acted[id][j]

\* C29's case: after a restart, a start moved backwards was caught up by an
\* update, next to firings made before
C29_Witness ==
    /\ cb /= << >>
    /\ \E r \in Runs("catchup") :
         r.trig.id = "T1" /\ StartMovedBack(r.trig) /\ r.acts /= << >>
    /\ Len(acted["T1"]) >= 2

\* C30: a catchup run activates no trigger_datetime whose scheduled_datetime
\* (trigger_datetime + trigger_offset) is still in the future at the time of
\* the run.
C30_CatchupHonoursOffset ==
    \A r \in Runs("catchup") : \A a \in Range(r.acts) : a.scheduled_datetime <= r.now

\* a pair (trigger_id, trigger_datetime) activated twice
ActivatedTwice(id, d) ==
    \E i, j \in DOMAIN acted[id] : i /= j /\ acted[id][i] = d /\ acted[id][j] = d

\* every ProcessToken message of both processes has been checked
AllChecked == token_chan = << >> /\ twin.chan = << >>

OtherEntries(q, id) == [ e \in { x \in DOMAIN q : x.trigger_id /= id } |-> q[e] ]

\* the tasks trigger id feeds by its trigger_edge rows
TasksOf(id) == { trigger_edge[id][i].task_id : i \in DOMAIN trigger_edge[id] }

\* the heap update_trigger is called with: in the select! the entry slept on
\* is pushed back first
HeapAtUpdate == IF sched = "sleep" THEN queue (+) SetToBag({Unwrap(sleeping)}) ELSE queue

\* a step that processed TriggerUpdate(Head(trigger_rx))
UpdateStep ==
    /\ trigger_rx /= << >>
    /\ trigger_rx' = Tail(trigger_rx)
    /\ last'.op \in {"update", "sleep_update"}

C31_UpdateStep ==
    UpdateStep =>
        LET uuid == Head(trigger_rx)
        IN /\ OtherEntries(queue', uuid) = OtherEntries(HeapAtUpdate, uuid)
           /\ \A o \in DOMAIN trigger : o /= uuid => trigger'[o] = trigger[o]
           /\ DOMAIN trigger' = DOMAIN trigger
           /\ \A o \in Ids : o /= uuid => acted'[o] = acted[o]
           /\ DOMAIN token \subseteq DOMAIN token'
           /\ \A k \in DOMAIN token' :
                k[1] \notin TasksOf(uuid) => k \in DOMAIN token /\ token'[k] = token[k]

\* C31: processing TriggerUpdate(id) leaves the heap entries of every other
\* trigger as they were, with their multiplicity, and changes no row, no
\* watermark, no activation and no token of another trigger.
C31_UpdateFrame == [][C31_UpdateStep]_vars

\* C31's case: the update of T2 arrived during the sleep on an entry of T1;
\* T2 was caught up and queued, the entry of T1 is back in the heap and the
\* firings and the tokens of T1 are there
C31_Witness ==
    /\ last.op = "sleep_update"
    /\ \E r \in Runs("catchup") : r.trig.id = "T2" /\ r.acts /= << >>
    /\ \E e \in DOMAIN queue : e.trigger_id = "T1"
    /\ \E e \in DOMAIN queue : e.trigger_id = "T2"
    /\ acted["T1"] /= << >>
    /\ \E k \in DOMAIN token : k[1] \in TasksOf("T1")
    /\ \E k \in DOMAIN token : k[1] \in TasksOf("T2")

====
